---- MODULE Spec2Model ----
(***************************************************************************)
(* Model of the MBR partition-table analysers of src/importcsv.py.         *)
(*                                                                         *)
(* The file holds three scripts one after the other, each introduced by a  *)
(* "# === ... ===" line and each with its own SECTOR_SIZE, parse_mbr and   *)
(* driver:                                                                 *)
(*   lines 163-283  parse_mbr, type_name, analyze          (4-entry table) *)
(*   lines 288-479  parse_mbr (here parse_mbr_2), type_description,        *)
(*                  print_partition_info, analyze_image     (filtering)    *)
(*   lines 483-570  a second copy of the first script (suffix _3)          *)
(*                                                                         *)
(* It is one Python module: a later def rebinds the name of an earlier     *)
(* one, and a function looks a name up when it runs.  The file makes four  *)
(* runs, each at the place where its "if __name__" block stands:           *)
(*   line 283  main (270) -> analyze (215), parse_mbr bound to line 171    *)
(*   line 479  main (454) -> analyze_image, parse_mbr bound to line 310    *)
(*   line 567  analyze (519), parse_mbr bound to line 489                  *)
(*   line 570  main (454) -> analyze_image, parse_mbr bound to line 489    *)
(* After an import the bindings are those of the last run.  script1 is a   *)
(* run of analyze (copy 1: line 283, copy 3: line 567), script2 a run of   *)
(* analyze_image whose field bound is the line of the parse_mbr it calls.  *)
(*                                                                         *)
(* Unsigned integers.  TLC's integers are 32-bit signed, while the code    *)
(* handles unsigned 32-bit fields and their products with 512 (41 bits)    *)
(* as Python integers of unbounded width.  A natural number is therefore   *)
(* a little-endian sequence of limbs in base 2^16 with no leading zero     *)
(* limb (<<>> is 0), so that equal numbers are equal values.               *)
(*                                                                         *)
(* A Python float sectors*512 / 2^30 is exact (the numerator is below      *)
(* 2^53 and the divisor a power of two); it is the record                  *)
(* [num |-> n, exp |-> e] standing for n / 2^e.  The integer 0 that the    *)
(* code stores for an empty entry is [num |-> <<>>, exp |-> 0].            *)
(***************************************************************************)
EXTENDS Integers, Sequences, FiniteSets, TLC

VARIABLES image, script1, script2

vars == <<image, script1, script2>>

\* ------------------------------------------------------------- bounds
\* An image is at most SECTOR_SIZE + MaxExtra bytes long.
MaxExtra == 1
\* The slots of an image are drawn from the first NTemplates slot templates.
NTemplates == 5

\* ---------------------------------------------------- Python integers
Radix == 256 * 256

Min(a, b) == IF a < b THEN a ELSE b

RECURSIVE Norm(_)
Norm(x) ==
    IF x = <<>> THEN <<>>
    ELSE IF x[Len(x)] = 0 THEN Norm(SubSeq(x, 1, Len(x) - 1))
    ELSE x

\* A small non-negative TLC integer as a number.
RECURSIVE NumOf(_)
NumOf(n) == IF n = 0 THEN <<>> ELSE <<n % Radix>> \o NumOf(n \div Radix)

\* x * k + carry, for 0 <= k, carry < 2^14.
RECURSIVE MulAdd(_, _, _)
MulAdd(x, k, carry) ==
    IF x = <<>> THEN NumOf(carry)
    ELSE LET t == Head(x) * k + carry
         IN  <<t % Radix>> \o MulAdd(Tail(x), k, t \div Radix)

NumMul(x, k) == Norm(MulAdd(x, k, 0))

\* x * 2^e.
RECURSIVE NumShl(_, _)
NumShl(x, e) ==
    IF e = 0 THEN x
    ELSE IF e >= 10 THEN NumShl(NumMul(x, 1024), e - 10)
    ELSE NumShl(NumMul(x, 2), e - 1)

\* x < y, on numbers.
RECURSIVE NumLessSameLen(_, _, _)
NumLessSameLen(x, y, i) ==
    IF i = 0 THEN FALSE
    ELSE IF x[i] /= y[i] THEN x[i] < y[i]
    ELSE NumLessSameLen(x, y, i - 1)

NumLess(x, y) ==
    IF Len(x) /= Len(y) THEN Len(x) < Len(y)
    ELSE NumLessSameLen(x, y, Len(x))

\* a < b, on floats n / 2^e.
FloatLess(a, b) == NumLess(NumShl(a.num, b.exp), NumShl(b.num, a.exp))

\* ------------------------------------------------------ bytes and files
\* Python's s[a:b] on a byte string (offsets from 0, clipped to the length).
Slice(s, a, b) ==
    IF a >= Min(b, Len(s)) THEN <<>> ELSE SubSeq(s, a + 1, Min(b, Len(s)))

\* f.read(n) on a freshly opened file: its first n bytes, or all of it.
Read(data, n) == Slice(data, 0, n)

SECTOR_SIZE == 512

\* Variant: the four bytes read most significant first (">I").
LittleEndianU32_BE(b) == Norm(<<b[4] + 256 * b[3], b[2] + 256 * b[1]>>)

\* "<I": four bytes, least significant first, as an unsigned integer.
LittleEndianU32(b) == Norm(<<b[1] + 256 * b[2], b[3] + 256 * b[4]>>)

\* struct.unpack("<B3sB3sII", part); the caller checks len(part) = 16.
unpack(part) ==
    [status    |-> part[1],
     first_chs |-> SubSeq(part, 2, 4),
     ptype     |-> part[5],
     last_chs  |-> SubSeq(part, 6, 8),
     lba_start |-> LittleEndianU32(SubSeq(part, 9, 12)),
     sectors   |-> LittleEndianU32(SubSeq(part, 13, 16))]

\* The offset of table entry i.
EntryOffset(i) == 446 + i * 16

\* The integer 0 and the quotient bytes / 1024**3.
IntZero == [num |-> <<>>, exp |-> 0]

GiB(bytes) == [num |-> bytes, exp |-> 30]

\* Variant: the product kept to its low 32 bits.
SizeBytes_u32(sectors) ==
    LET p == NumMul(sectors, SECTOR_SIZE) IN Norm(SubSeq(p, 1, Min(2, Len(p))))

\* sectors * SECTOR_SIZE, a Python integer.
SizeBytes(sectors) == NumMul(sectors, SECTOR_SIZE)

\* Variant: empty only when both are 0.
IsEmpty_and(ptype, sectors) == ptype = 0 /\ sectors = <<>>

\* ptype == 0 or sectors == 0.
IsEmpty(ptype, sectors) == ptype = 0 \/ sectors = <<>>

\* ------------------------------------- first script: the 4-entry table
\* Variant: entries numbered from 1.
Entry_from1(i, u) ==
    [index |-> i + 1, ptype |-> u.ptype, boot |-> (u.status = 128),
     lba |-> u.lba_start, sectors |-> u.sectors,
     size_gb |-> IF IsEmpty(u.ptype, u.sectors) THEN IntZero
                 ELSE GiB(SizeBytes(u.sectors)),
     empty |-> IsEmpty(u.ptype, u.sectors)]

\* The dictionary parse_mbr appends for slot i.
Entry(i, u) ==
    [index |-> i, ptype |-> u.ptype, boot |-> (u.status = 128),
     lba |-> u.lba_start, sectors |-> u.sectors,
     size_gb |-> IF IsEmpty(u.ptype, u.sectors) THEN IntZero
                 ELSE GiB(SizeBytes(u.sectors)),
     empty |-> IsEmpty(u.ptype, u.sectors)]

\* for i in range(4): ...; struct.error leaves the loop and the function.
RECURSIVE parse_mbr_loop(_, _, _)
parse_mbr_loop(mbr, i, entries) ==
    IF i = 4 THEN [exc |-> "none", ret |-> entries]
    ELSE LET start == EntryOffset(i)
             part  == Slice(mbr, start, start + 16)
         IN  IF Len(part) /= 16 THEN [exc |-> "struct.error", ret |-> <<>>]
             ELSE parse_mbr_loop(mbr, i + 1, Append(entries, Entry(i, unpack(part))))

parse_mbr(mbr) ==
    LET r == parse_mbr_loop(mbr, 0, <<>>)
    IN  [exc |-> r.exc, warn |-> FALSE, ret |-> r.ret]

\* f"{n:02X}": upper-case hexadecimal, padded with zeros to two characters.
HexDigit(d) ==
    <<"0", "1", "2", "3", "4", "5", "6", "7",
      "8", "9", "A", "B", "C", "D", "E", "F">>[d + 1]

RECURSIVE HexDigits(_)
HexDigits(n) ==
    IF n < 16 THEN HexDigit(n) ELSE HexDigits(n \div 16) \o HexDigit(n % 16)

\* Variant: no padding ("X").
FormatHex02X_nopad(n) == HexDigits(n)

FormatHex02X(n) == IF Len(HexDigits(n)) < 2 THEN "0" \o HexDigits(n) ELSE HexDigits(n)

\* types.get(ptype, f"Unknown (0x{ptype:02X})")
type_name(ptype) ==
    CASE ptype = 7   -> "NTFS"
      [] ptype = 11  -> "FAT32"
      [] ptype = 12  -> "FAT32 LBA"
      [] ptype = 14  -> "FAT16 LBA"
      [] ptype = 131 -> "Linux"
      [] ptype = 130 -> "Linux Swap"
      [] ptype = 238 -> "GPT Protective"
      [] OTHER       -> "Unknown (0x" \o FormatHex02X(ptype) \o ")"

None == <<>>

Some(x) == <<x>>

\* The loop of analyze over the 4 entries: real_parts, in the order appended.
RECURSIVE real_parts_of(_)
real_parts_of(parts) ==
    IF parts = <<>> THEN <<>>
    ELSE IF Head(parts).empty THEN real_parts_of(Tail(parts))
    ELSE <<Head(parts)>> \o real_parts_of(Tail(parts))

\* if len(real_parts) >= 2: p = real_parts[1]
second_of(real_parts) ==
    IF Len(real_parts) >= 2 THEN Some(real_parts[2]) ELSE None

\* max(real_parts, key=lambda x: x["size_gb"]): the first of the greatest.
RECURSIVE max_size_gb_from(_, _, _)
max_size_gb_from(seq, best, k) ==
    IF k > Len(seq) THEN best
    ELSE IF FloatLess(best.size_gb, seq[k].size_gb)
         THEN max_size_gb_from(seq, seq[k], k + 1)
         ELSE max_size_gb_from(seq, best, k + 1)

\* if real_parts: biggest = max(...)
biggest_of(real_parts) ==
    IF real_parts /= <<>> THEN Some(max_size_gb_from(real_parts, real_parts[1], 2))
    ELSE None

\* What analyze prints after parse_mbr returned (the raw dump prints the
\* entries as they are): the listing loop that fills real_parts and calls
\* type_name for every entry it appends, the second real partition, and the
\* summary.  calls lists the calls of type_name in order, each with the
\* index of the entry it was made for.
analyze_report(parts) ==
    LET real       == real_parts_of(parts)
        second     == second_of(real)
        biggest    == biggest_of(real)
        classified == real \o second \o biggest
    IN  [real_parts |-> real, second |-> second, biggest |-> biggest,
         calls |-> [k \in 1..Len(classified) |->
                      [entry |-> classified[k].index,
                       arg   |-> classified[k].ptype,
                       label |-> type_name(classified[k].ptype)]]]

\* --------------------------------- second script: the filtering decoder
\* signature != b"\x55\xaa"
signature_missing(signature) == signature /= <<85, 170>>

\* Variant: only the type code decides.
skip_entry_type_only(u) == u.ptype = 0

\* if part_type == 0x00 or num_sectors == 0: continue
skip_entry(u) == IsEmpty(u.ptype, u.sectors)

\* The dictionary parse_mbr appends for a slot it keeps.
Partition(i, u) ==
    [table_index |-> i, bootable |-> (u.status = 128), type |-> u.ptype,
     start_lba |-> u.lba_start, num_sectors |-> u.sectors,
     size_bytes |-> SizeBytes(u.sectors),
     size_gb |-> GiB(SizeBytes(u.sectors))]

\* The debug line printed for every slot.
RawLine(i, u) ==
    [entry |-> i, status |-> u.status, type |-> u.ptype,
     start_lba |-> u.lba_start, sectors |-> u.sectors]

RECURSIVE parse_mbr_2_loop(_, _, _, _)
parse_mbr_2_loop(mbr_bytes, i, raw, partitions) ==
    IF i = 4 THEN [raw |-> raw, partitions |-> partitions]
    ELSE LET offset == EntryOffset(i)
             u      == unpack(Slice(mbr_bytes, offset, offset + 16))
         IN  IF skip_entry(u)
             THEN parse_mbr_2_loop(mbr_bytes, i + 1, Append(raw, RawLine(i, u)), partitions)
             ELSE parse_mbr_2_loop(mbr_bytes, i + 1, Append(raw, RawLine(i, u)),
                                   Append(partitions, Partition(i, u)))

\* Variant: a sector without the signature is refused.
parse_mbr_2_strict(mbr_bytes) ==
    IF Len(mbr_bytes) /= SECTOR_SIZE \/ signature_missing(Slice(mbr_bytes, 510, 512))
    THEN [exc |-> "ValueError", warn |-> FALSE, raw |-> <<>>, ret |-> <<>>]
    ELSE LET r == parse_mbr_2_loop(mbr_bytes, 0, <<>>, <<>>)
         IN  [exc |-> "none", warn |-> FALSE, raw |-> r.raw, ret |-> r.partitions]

\* parse_mbr of the second script.  warn: the signature warning was printed;
\* raw: the debug lines; ret: the list returned.
parse_mbr_2(mbr_bytes) ==
    IF Len(mbr_bytes) /= SECTOR_SIZE
    THEN [exc |-> "ValueError", warn |-> FALSE, raw |-> <<>>, ret |-> <<>>]
    ELSE LET r == parse_mbr_2_loop(mbr_bytes, 0, <<>>, <<>>)
         IN  [exc |-> "none",
              warn |-> signature_missing(Slice(mbr_bytes, 510, 512)),
              raw |-> r.raw, ret |-> r.partitions]

\* mapping.get(part_type, f"Unknown / Other (0x{part_type:02X})")
type_description(part_type) ==
    CASE part_type = 7   -> "NTFS/exFAT/HPFS (0x07)"
      [] part_type = 11  -> "W95 FAT32 (0x0B)"
      [] part_type = 12  -> "W95 FAT32 LBA (0x0C)"
      [] part_type = 14  -> "W95 FAT16 LBA (0x0E)"
      [] part_type = 131 -> "Linux (0x83)"
      [] part_type = 130 -> "Linux Swap (0x82)"
      [] part_type = 238 -> "GPT protective MBR (0xEE)"
      [] OTHER           -> "Unknown / Other (0x" \o FormatHex02X(part_type) \o ")"

\* if len(partitions) >= 2: second = partitions[1]
second_real(partitions) ==
    IF Len(partitions) >= 2 THEN Some(partitions[2]) ELSE None

\* max(partitions, key=lambda x: x["size_bytes"]): the first of the greatest.
RECURSIVE max_size_bytes_from(_, _, _)
max_size_bytes_from(seq, best, k) ==
    IF k > Len(seq) THEN best
    ELSE IF NumLess(best.size_bytes, seq[k].size_bytes)
         THEN max_size_bytes_from(seq, seq[k], k + 1)
         ELSE max_size_bytes_from(seq, best, k + 1)

largest_of(partitions) == max_size_bytes_from(partitions, partitions[1], 2)

\* partitions.index(largest) + 1: the position of the first equal element.
RECURSIVE index_from(_, _, _)
index_from(seq, x, k) == IF seq[k] = x THEN k ELSE index_from(seq, x, k + 1)

\* print_partition_info: nothing but a notice for an empty list; else the
\* partition blocks, the second real partition and the summary.  calls lists
\* the calls of type_description in order.  The first block reads
\* p['table_index'] (line 402) before anything else: a dictionary without
\* that key raises KeyError there.
print_partition_info(partitions) ==
    IF partitions = <<>>
    THEN [exc |-> "none", second |-> None, largest |-> None, largest_index |-> 0,
          calls |-> <<>>]
    ELSE IF "table_index" \notin DOMAIN partitions[1]
    THEN [exc |-> "KeyError", second |-> None, largest |-> None, largest_index |-> 0,
          calls |-> <<>>]
    ELSE LET second     == second_real(partitions)
             largest    == largest_of(partitions)
             classified == partitions \o second \o <<largest>>
         IN  [exc |-> "none", second |-> second, largest |-> Some(largest),
              largest_index |-> index_from(partitions, largest, 1),
              calls |-> [k \in 1..Len(classified) |->
                           [entry |-> classified[k].table_index,
                            arg   |-> classified[k].type,
                            label |-> type_description(classified[k].type)]]]

\* ------------------------------- third script: a copy of the first one
Entry_3(i, u) ==
    [index |-> i, ptype |-> u.ptype, boot |-> (u.status = 128),
     lba |-> u.lba_start, sectors |-> u.sectors,
     size_gb |-> IF IsEmpty(u.ptype, u.sectors) THEN IntZero
                 ELSE GiB(SizeBytes(u.sectors)),
     empty |-> IsEmpty(u.ptype, u.sectors)]

RECURSIVE parse_mbr_3_loop(_, _, _)
parse_mbr_3_loop(mbr, i, entries) ==
    IF i = 4 THEN [exc |-> "none", ret |-> entries]
    ELSE LET start == EntryOffset(i)
             part  == Slice(mbr, start, start + 16)
         IN  IF Len(part) /= 16 THEN [exc |-> "struct.error", ret |-> <<>>]
             ELSE parse_mbr_3_loop(mbr, i + 1, Append(entries, Entry_3(i, unpack(part))))

\* Like parse_mbr of the first script, it reads no byte after the table and
\* prints nothing: warn, the signature warning, is never raised.
parse_mbr_3(mbr) ==
    LET r == parse_mbr_3_loop(mbr, 0, <<>>)
    IN  [exc |-> r.exc, warn |-> FALSE, ret |-> r.ret]

type_name_3(pt) ==
    CASE pt = 7   -> "NTFS"
      [] pt = 11  -> "FAT32"
      [] pt = 12  -> "FAT32 LBA"
      [] pt = 14  -> "FAT16 LBA"
      [] pt = 131 -> "Linux"
      [] pt = 130 -> "Linux Swap"
      [] pt = 238 -> "GPT Protective"
      [] OTHER    -> "Unknown (0x" \o FormatHex02X(pt) \o ")"

analyze_report_3(parts) ==
    LET real       == real_parts_of(parts)
        second     == second_of(real)
        biggest    == biggest_of(real)
        classified == real \o second \o biggest
    IN  [real_parts |-> real, second |-> second, biggest |-> biggest,
         calls |-> [k \in 1..Len(classified) |->
                      [entry |-> classified[k].index,
                       arg   |-> classified[k].ptype,
                       label |-> type_name_3(classified[k].ptype)]]]

\* ------------------------------------------------------------- images
\* One 16-byte table entry: status, CHS, type, CHS, start LBA, sector count.
SlotBytes(status, ptype, chs, lba4, sec4) ==
    <<status>> \o <<chs, chs, chs>> \o <<ptype>> \o <<chs, chs, chs>> \o lba4 \o sec4

ZeroSlot == SlotBytes(0, 0, 0, <<0, 0, 0, 0>>, <<0, 0, 0, 0>>)

SlotTemplate(k) ==
    CASE k = 1 -> ZeroSlot
      [] k = 2 -> SlotBytes(128, 131, 254, <<0, 8, 0, 0>>, <<0, 32, 3, 0>>)
      [] k = 3 -> SlotBytes(1, 5, 255, <<4, 3, 2, 1>>, <<255, 255, 255, 255>>)
      [] k = 4 -> SlotBytes(128, 0, 254, <<63, 0, 0, 0>>, <<0, 0, 16, 0>>)
      [] k = 5 -> SlotBytes(128, 11, 254, <<1, 0, 0, 0>>, <<0, 0, 0, 0>>)
      [] k = 6 -> SlotBytes(0, 7, 254, <<0, 40, 3, 0>>, <<0, 32, 3, 0>>)
      [] k = 7 -> SlotBytes(0, 130, 0, <<255, 255, 255, 255>>, <<1, 0, 0, 0>>)
      [] OTHER -> ZeroSlot

\* Bytes 510-511: the signature, its bytes swapped, each byte right with
\* the other wrong, and none.
Signatures == {<<85, 170>>, <<170, 85>>, <<85, 0>>, <<0, 170>>, <<0, 0>>}

\* A sector: 446 bytes of boot code, the 4 entries, the 2 signature bytes;
\* then the bytes that follow the first sector.
SectorOf(fill, slots, sig) ==
    [k \in 1..446 |-> fill] \o slots[0] \o slots[1] \o slots[2] \o slots[3] \o sig

Trailing == [k \in 1..MaxExtra |-> 204]

ImageLengths == {0, 462, 510, 511} \cup (SECTOR_SIZE .. (SECTOR_SIZE + MaxExtra))

\* ------------------------------------------------------- the processes
\* script1: one run of analyze on the image, by the first script (copy 1)
\* or by its copy, the third script (copy 3).
\* script2: one run of main/analyze_image on the same image; bound is the
\* line of the definition the name parse_mbr is bound to during the run:
\* 310 in the run of line 479, 489 in the run of line 570 and in any call
\* made after the module is loaded.
Script1Start(copy) ==
    [copy |-> copy, pc |-> "start", invoked |-> FALSE, exc |-> "none",
     warn |-> FALSE, parts |-> <<>>, real_parts |-> <<>>, second |-> None,
     biggest |-> None, calls |-> <<>>]

Script2Start(bound) ==
    [bound |-> bound, pc |-> "start", invoked |-> FALSE, exc |-> "none", size_bytes |-> 0,
     warn |-> FALSE, raw |-> <<>>, partitions |-> <<>>,
     second |-> None, largest |-> None, largest_index |-> 0, calls |-> <<>>]

\* The templates of the entries of an image shorter or longer than a sector,
\* and of a sector without the signature.
ShortTemplates == 1..2

StartOn(data, isfile) ==
    /\ image = [isfile |-> isfile, data |-> data]
    /\ \E copy \in {1, 3} : script1 = Script1Start(copy)
    /\ \E bound \in {310, 489} : script2 = Script2Start(bound)

\* The images of the structural runs: no file at all; a file of exactly one
\* sector, with 4 entries drawn from the templates and the signature, or
\* with another pair of bytes in its place; a file of another length, cut
\* from (or continuing) a valid sector.
Init ==
    \/ StartOn(<<>>, FALSE)
    \/ \E t \in [0..3 -> 1..NTemplates] :
          StartOn(SectorOf(0, [k \in 0..3 |-> SlotTemplate(t[k])], <<85, 170>>), TRUE)
    \/ \E sig \in Signatures \ {<<85, 170>>}, t \in [0..3 -> ShortTemplates] :
          StartOn(SectorOf(0, [k \in 0..3 |-> SlotTemplate(t[k])], sig), TRUE)
    \/ \E n \in ImageLengths \ {SECTOR_SIZE}, t \in [0..3 -> ShortTemplates] :
          StartOn(Slice(SectorOf(0, [k \in 0..3 |-> SlotTemplate(t[k])], <<85, 170>>)
                        \o Trailing, 0, n), TRUE)

\* The images of the byte-level runs: one sector in which one entry takes
\* its status, type, start LBA and sector count from the choices below, the
\* boot code and the CHS bytes are all 0x00 or all 0xFF, and the other three
\* entries are the Linux entry of the templates.
StatusChoices == {0, 128, 129}

TypeChoices == {0, 131}

LbaChoices == {<<0, 0, 0, 0>>, <<4, 3, 2, 255>>}

SectorChoices ==
    {<<0, 0, 0, 0>>, <<1, 0, 0, 0>>, <<0, 1, 0, 0>>, <<0, 0, 1, 0>>, <<0, 0, 0, 1>>,
     <<0, 0, 128, 0>>, <<255, 255, 127, 0>>, <<0, 0, 0, 128>>, <<4, 3, 2, 1>>,
     <<255, 255, 255, 255>>}

InitBytes ==
    \E j \in 0..3, status \in StatusChoices, ptype \in TypeChoices, fill \in {0, 255},
       lba \in LbaChoices, sec \in SectorChoices :
       StartOn(SectorOf(fill,
                        [k \in 0..3 |-> IF k = j THEN SlotBytes(status, ptype, fill, lba, sec)
                                        ELSE SlotTemplate(2)],
                        <<85, 170>>), TRUE)

\* The images of the classification runs: one sector whose entry 0 has any
\* type code, whose entry 1 has one of the codes of the lookup tables (both
\* with sectors), whose entry 2 has a type and no sectors, and whose entry 3
\* is empty.
KnownTypes == {7, 11, 12, 14, 130, 131, 238}

InitTypes ==
    \E t0 \in 0..255, t1 \in KnownTypes :
       StartOn(SectorOf(0,
                        [k \in 0..3 |->
                           CASE k = 0 -> SlotBytes(0, t0, 0, <<1, 0, 0, 0>>, <<1, 0, 0, 0>>)
                             [] k = 1 -> SlotBytes(0, t1, 0, <<2, 0, 0, 0>>, <<2, 0, 0, 0>>)
                             [] k = 2 -> SlotTemplate(5)
                             [] OTHER -> ZeroSlot],
                        <<85, 170>>), TRUE)

\* analyze, lines 216-225: the isfile test, the read of the first sector and
\* parts = parse_mbr(mbr); a struct.error is not caught.
AnalyzeParse ==
    /\ script1.pc = "start"
    /\ LET mbr == Read(image.data, SECTOR_SIZE)
           r   == IF script1.copy = 1 THEN parse_mbr(mbr) ELSE parse_mbr_3(mbr)
       IN  script1' = IF ~image.isfile
                 THEN [script1 EXCEPT !.pc = "notfound"]
                 ELSE IF r.exc /= "none"
                 THEN [script1 EXCEPT !.pc = "crashed", !.invoked = TRUE, !.exc = r.exc]
                 ELSE [script1 EXCEPT !.pc = "parsed", !.invoked = TRUE,
                                      !.warn = r.warn, !.parts = r.ret]
    /\ UNCHANGED <<image, script2>>

\* analyze, lines 227-267: the raw dump, the listing, the second real
\* partition and the summary.
AnalyzeReport ==
    /\ script1.pc = "parsed"
    /\ LET r == IF script1.copy = 1 THEN analyze_report(script1.parts)
                ELSE analyze_report_3(script1.parts)
       IN  script1' = [script1 EXCEPT !.pc = "done", !.real_parts = r.real_parts,
                            !.second = r.second, !.biggest = r.biggest,
                            !.calls = r.calls]
    /\ UNCHANGED <<image, script2>>

\* analyze_image, lines 439-450: the isfile test, the size, the read of the
\* first sector and partitions = parse_mbr(mbr), by the definition the name
\* is bound to; the 4-entry one checks no length, prints no warning and no
\* raw lines.  main (lines 472-475) prints the FileNotFoundError, the
\* ValueError or the struct.error.
ImageParse ==
    /\ script2.pc = "start"
    /\ LET mbr == Read(image.data, SECTOR_SIZE)
           r   == IF script2.bound = 310 THEN parse_mbr_2(mbr)
                  ELSE [exc  |-> parse_mbr_3(mbr).exc, warn |-> parse_mbr_3(mbr).warn,
                        raw  |-> <<>>, ret |-> parse_mbr_3(mbr).ret]
       IN  script2' = IF ~image.isfile
                 THEN [script2 EXCEPT !.pc = "error", !.exc = "FileNotFoundError"]
                 ELSE IF r.exc /= "none"
                 THEN [script2 EXCEPT !.pc = "error", !.invoked = TRUE, !.exc = r.exc,
                                 !.size_bytes = Len(image.data)]
                 ELSE [script2 EXCEPT !.pc = "parsed", !.invoked = TRUE, !.warn = r.warn,
                                 !.raw = r.raw, !.partitions = r.ret,
                                 !.size_bytes = Len(image.data)]
    /\ UNCHANGED <<image, script1>>

\* analyze_image, line 451: print_partition_info(partitions); main prints
\* its KeyError.
ImagePrint ==
    /\ script2.pc = "parsed"
    /\ LET r == print_partition_info(script2.partitions)
       IN  script2' = IF r.exc /= "none"
                      THEN [script2 EXCEPT !.pc = "error", !.exc = r.exc]
                      ELSE [script2 EXCEPT !.pc = "done", !.second = r.second,
                                           !.largest = r.largest,
                                           !.largest_index = r.largest_index,
                                           !.calls = r.calls]
    /\ UNCHANGED <<image, script1>>

Next ==
    \/ AnalyzeParse
    \/ AnalyzeReport
    \/ ImageParse
    \/ ImagePrint

Spec == Init /\ [][Next]_vars

SpecBytes == InitBytes /\ [][Next]_vars

SpecTypes == InitTypes /\ [][Next]_vars

\* ======================================================== the claims
\* The buffer both scripts hand to their decoder: the first sector read.
Sector == Read(image.data, SECTOR_SIZE)

\* Byte o of table entry i of the sector.
TableByte(i, o) == Sector[446 + 16 * i + o + 1]

\* The unsigned value of the 4 bytes at o of entry i, least significant first.
Value32(i, o) ==
    Norm(MulAdd(MulAdd(MulAdd(NumOf(TableByte(i, o + 3)), 256, TableByte(i, o + 2)),
                       256, TableByte(i, o + 1)), 256, TableByte(i, o)))

SlotIsEmpty(i) == TableByte(i, 4) = 0 \/ \A o \in 12..15 : TableByte(i, o) = 0

NonEmptySlots == {i \in 0..3 : ~SlotIsEmpty(i)}

\* The n-th non-empty slot in table order, n from 1.
NthSlot(n) ==
    CHOOSE i \in NonEmptySlots : Cardinality({j \in NonEmptySlots : j < i}) = n - 1

Parsed1 == script1.pc \in {"parsed", "done"}

\* analyze_image holds the list of the filtering parse_mbr.
Parsed2 == script2.bound = 310 /\ script2.pc \in {"parsed", "done"}

\* analyze_image holds the table of the 4-entry parse_mbr of line 489.
Parsed2Rebound ==
    script2.bound = 489 /\ (script2.pc = "parsed" \/ script2.exc = "KeyError")

\* Long division of a number by a small k: <<quotient, remainder>>.
RECURSIVE DivFrom(_, _, _, _, _)
DivFrom(x, k, i, rem, quot) ==
    IF i = 0 THEN <<Norm(quot), rem>>
    ELSE LET cur == rem * Radix + x[i]
         IN  DivFrom(x, k, i - 1, cur % k, <<cur \div k>> \o quot)

DivSmall(x, k) == DivFrom(x, k, Len(x), 0, <<>>)

TwoHex(n) == HexDigit(n \div 16) \o HexDigit(n % 16)

SameEntry(e, p) ==
    /\ e.index = p.table_index
    /\ e.boot = p.bootable
    /\ e.ptype = p.type
    /\ e.lba = p.start_lba
    /\ e.sectors = p.num_sectors

\* C1 (as claimed): an image file shorter than 512 bytes is rejected before
\* decoding: no run calls parse_mbr on the short buffer and no partition
\* table is produced or reported.
C1_ShortImageNeverDecoded ==
    (image.isfile /\ Len(image.data) < SECTOR_SIZE) =>
        /\ ~script1.invoked /\ ~script2.invoked
        /\ ~Parsed1 /\ ~Parsed2 /\ ~Parsed2Rebound
        /\ script1.parts = <<>> /\ script2.partitions = <<>>

\* C2 (as claimed): on a 512-byte buffer every parse_mbr returns exactly 4
\* entries, the entry at position i having table index i.
C2_AlwaysFourEntries ==
    Len(Sector) = SECTOR_SIZE =>
        /\ Parsed1 => /\ Len(script1.parts) = 4
                       /\ \A i \in 0..3 : script1.parts[i + 1].index = i
        /\ Parsed2 => /\ Len(script2.partitions) = 4
                       /\ \A i \in 0..3 : script2.partitions[i + 1].table_index = i
        /\ Parsed2Rebound => /\ Len(script2.partitions) = 4
                              /\ \A i \in 0..3 : script2.partitions[i + 1].index = i

\* C2 (amended): on a 512-byte buffer the 4-entry parse_mbr (both copies,
\* whichever function calls it) returns exactly 4 entries, the entry at
\* position i having index i, empty or not; the filtering parse_mbr prints 4 raw lines in table order and
\* returns one entry per non-empty slot, in table order, each with the
\* table_index of its slot.
C2_FourEntriesOrRealOnes ==
    Len(Sector) = SECTOR_SIZE =>
        /\ Parsed1 => /\ Len(script1.parts) = 4
                       /\ \A i \in 0..3 : script1.parts[i + 1].index = i
        /\ Parsed2 => /\ Len(script2.raw) = 4
                       /\ \A i \in 0..3 : script2.raw[i + 1].entry = i
                       /\ Len(script2.partitions) = Cardinality(NonEmptySlots)
                       /\ \A k \in 1..Len(script2.partitions) :
                             script2.partitions[k].table_index = NthSlot(k)
        /\ Parsed2Rebound => /\ Len(script2.partitions) = 4
                              /\ \A i \in 0..3 : script2.partitions[i + 1].index = i

\* C2 witness: both decoders have run on a sector with empty and non-empty
\* slots; the 4-entry table holds an empty first entry, the filtered list
\* two entries.
C2_Witness ==
    /\ Len(Sector) = SECTOR_SIZE
    /\ Parsed1 /\ script1.copy = 1 /\ Len(script1.parts) = 4 /\ script1.parts[1].empty
    /\ Parsed2 /\ Len(script2.partitions) = 2

\* The entries of a 4-entry table are those of the slots of the sector.
EntriesFromOffsets(parts) ==
    \A i \in 0..3 :
       LET e == parts[i + 1]
       IN  /\ e.boot = (TableByte(i, 0) = 128)
           /\ e.ptype = TableByte(i, 4)
           /\ e.lba = Value32(i, 8)
           /\ e.sectors = Value32(i, 12)

\* C3: every decoded entry takes bootable from the status byte (0x80), the
\* type code from byte 4, start_lba and sector_count from the little-endian
\* 4-byte fields at 8 and 12 of its own 16-byte slot at 446 + 16*i; the
\* boot code and CHS bytes, which vary, play no part.
C3_FieldsFromOffsets ==
    /\ Parsed1 => EntriesFromOffsets(script1.parts)
    /\ Parsed2Rebound => EntriesFromOffsets(script2.partitions)
    /\ Parsed2 =>
          /\ \A i \in 0..3 :
                LET l == script2.raw[i + 1]
                IN  /\ l.status = TableByte(i, 0)
                    /\ l.type = TableByte(i, 4)
                    /\ l.start_lba = Value32(i, 8)
                    /\ l.sectors = Value32(i, 12)
          /\ \A k \in 1..Len(script2.partitions) :
                LET q == script2.partitions[k]
                    i == q.table_index
                IN  /\ i \in 0..3
                    /\ q.bootable = (TableByte(i, 0) = 128)
                    /\ q.type = TableByte(i, 4)
                    /\ q.start_lba = Value32(i, 8)
                    /\ q.num_sectors = Value32(i, 12)

\* C3 witness: both decoders have decoded a slot whose status is 0x81 (set,
\* but not 0x80), whose start LBA 0xFF020304 lies above 2^31, whose sector
\* count is 0x01020304, in a sector whose other bytes are 0xFF.
C3_Witness ==
    /\ Parsed1 /\ Parsed2
    /\ Sector[1] = 255
    /\ \E i \in 0..3 :
          /\ TableByte(i, 0) = 129
          /\ ~script1.parts[i + 1].boot
          /\ script1.parts[i + 1].lba = <<772, 65282>>
          /\ script1.parts[i + 1].sectors = <<772, 258>>
          /\ \E k \in 1..Len(script2.partitions) :
                /\ script2.partitions[k].table_index = i
                /\ script2.partitions[k].start_lba = <<772, 65282>>

\* The sector with its last two bytes replaced by the signature 0x55 0xAA.
WithSignature(buf) == SubSeq(buf, 1, 510) \o <<85, 170>>

\* Bytes 510-511 of the sector are not 0x55 0xAA.
SignatureWrong == Sector[511] /= 85 \/ Sector[512] /= 170

\* On a 512-byte buffer no parse_mbr fails (no ValueError, no struct.error)
\* and every parse_mbr returns the entries it returns for the same buffer
\* with a valid signature.
DecodeIgnoresSignature ==
    /\ script2.exc \notin {"ValueError", "struct.error"}
    /\ script2.pc /= "start" => (Parsed2 \/ Parsed2Rebound)
    /\ script1.pc /= "crashed" /\ script1.exc = "none"
    /\ Parsed2 => script2.partitions = parse_mbr_2(WithSignature(Sector)).ret
    /\ Parsed2Rebound => script2.partitions = parse_mbr_3(WithSignature(Sector)).ret
    /\ Parsed1 =>
          script1.parts = IF script1.copy = 1 THEN parse_mbr(WithSignature(Sector)).ret
                          ELSE parse_mbr_3(WithSignature(Sector)).ret

\* C4 (as claimed): on a 512-byte buffer decoding completes with the same
\* entries whatever bytes 510-511 hold, and every run that has decoded the
\* buffer has reported the signature: the flag is raised iff the two bytes
\* are not 0x55 0xAA.
C4_SignatureAlwaysReported ==
    Len(Sector) = SECTOR_SIZE =>
        /\ DecodeIgnoresSignature
        /\ Parsed1 => (script1.warn = SignatureWrong)
        /\ (Parsed2 \/ Parsed2Rebound) => (script2.warn = SignatureWrong)

\* C4 (amended): on a 512-byte buffer decoding completes with the same
\* entries whatever bytes 510-511 hold; the filtering parse_mbr prints its
\* warning iff the two bytes are not 0x55 0xAA; the 4-entry parse_mbr,
\* called by analyze or by analyze_image, reports nothing about them.
C4_SignatureAdvisory ==
    Len(Sector) = SECTOR_SIZE =>
        /\ DecodeIgnoresSignature
        /\ Parsed2 => (script2.warn = SignatureWrong)
        /\ Parsed1 => ~script1.warn
        /\ Parsed2Rebound => ~script2.warn

\* C4 witness: on a sector whose byte 510 is right and whose byte 511 is
\* wrong, analyze_image with the filtering parse_mbr has finished with the
\* warning and a partition, and analyze has finished without any warning.
C4_Witness ==
    /\ Len(Sector) = SECTOR_SIZE
    /\ Sector[511] = 85 /\ Sector[512] /= 170
    /\ script2.pc = "done" /\ script2.warn /\ Len(script2.partitions) >= 1
    /\ script1.pc = "done" /\ ~script1.warn /\ Len(script1.real_parts) >= 1

\* C5 (as claimed): every run that has decoded a sector reports a largest
\* partition and no error: absent when there is no real partition; else a
\* real partition no smaller than any other and, among those of the greatest
\* size, the one with the lowest table index.
C5_LargestFirstOfGreatest ==
    /\ (Len(Sector) = SECTOR_SIZE /\ script2.invoked) => script2.exc = "none"
    /\ script2.pc = "done" =>
          IF script2.partitions = <<>> THEN script2.largest = None
          ELSE /\ Len(script2.largest) = 1
               /\ script2.largest_index \in 1..Len(script2.partitions)
               /\ script2.largest[1] = script2.partitions[script2.largest_index]
               /\ \A k \in 1..Len(script2.partitions) :
                     LET q == script2.partitions[k]
                     IN  /\ ~NumLess(script2.largest[1].size_bytes, q.size_bytes)
                         /\ q.size_bytes = script2.largest[1].size_bytes
                               => script2.largest[1].table_index <= q.table_index
    /\ script1.pc = "done" =>
          IF script1.real_parts = <<>> THEN script1.biggest = None
          ELSE /\ Len(script1.biggest) = 1
               /\ \E k \in 1..Len(script1.real_parts) : script1.biggest[1] = script1.real_parts[k]
               /\ \A k \in 1..Len(script1.real_parts) :
                     LET q == script1.real_parts[k]
                     IN  /\ ~NumLess(script1.biggest[1].size_gb.num, q.size_gb.num)
                         /\ q.size_gb = script1.biggest[1].size_gb
                               => script1.biggest[1].index <= q.index

\* C6 (as claimed): with fewer than 2 non-empty slots the second real
\* partition is absent and the run ends without error; else it is the entry of the second
\* non-empty slot in table order, which is real_partitions[1].
C6_SecondRealPartition ==
    /\ Len(Sector) = SECTOR_SIZE => (script2.pc /= "error" /\ script1.pc /= "crashed")
    /\ script2.pc = "done" =>
          IF Cardinality(NonEmptySlots) < 2 THEN script2.second = None
          ELSE /\ script2.second = Some(script2.partitions[2])
               /\ script2.second[1].table_index = NthSlot(2)
    /\ script1.pc = "done" =>
          IF Cardinality(NonEmptySlots) < 2 THEN script1.second = None
          ELSE /\ script1.second = Some(script1.real_parts[2])
               /\ script1.second[1].index = NthSlot(2)
               /\ script1.second[1] = script1.parts[NthSlot(2) + 1]

\* In a 4-entry table the entries with type code 0 or no sectors, and only
\* those, are marked empty, and they have size 0.
EmptyMarked(parts) ==
    \A k \in 1..Len(parts) :
       LET e == parts[k]
       IN  /\ (e.ptype = 0 \/ e.sectors = <<>>) => (e.empty /\ e.size_gb = IntZero)
           /\ e.empty => (e.ptype = 0 \/ e.sectors = <<>>)

\* C7: an entry of the 4-entry table whose type code is 0 or whose sector
\* count is 0 is marked empty and has size 0, whatever its other fields; the
\* filtering decoder returns no such entry.
C7_EmptyEntriesHaveNoSize ==
    /\ Parsed1 => EmptyMarked(script1.parts)
    /\ Parsed2Rebound => EmptyMarked(script2.partitions)
    /\ Parsed2 =>
          \A k \in 1..Len(script2.partitions) :
             /\ script2.partitions[k].type /= 0
             /\ script2.partitions[k].num_sectors /= <<>>
             /\ ~SlotIsEmpty(script2.partitions[k].table_index)

\* C7 witness: the table holds an entry with status 0x80, a start LBA and
\* sectors but type code 0, marked empty with size 0, and the filtering
\* decoder returned the three other entries only.
C7_Witness ==
    /\ Parsed1 /\ Parsed2
    /\ \E k \in 1..Len(script1.parts) :
          LET e == script1.parts[k]
          IN  /\ e.ptype = 0 /\ e.sectors /= <<>> /\ e.lba /= <<>> /\ e.boot
              /\ e.empty /\ e.size_gb = IntZero
    /\ Len(script2.partitions) = 3

\* In a 4-entry table the size of a non-empty entry is a number of bytes
\* over 2^30, and that number is the sector count times 512.
SizesExact(parts) ==
    \A k \in 1..Len(parts) :
       LET e == parts[k]
       IN  ~e.empty =>
              /\ e.size_gb.exp = 30
              /\ DivSmall(e.size_gb.num, SECTOR_SIZE) = <<e.sectors, 0>>

\* C8: the size in bytes of a non-empty entry is its sector count times 512
\* exactly: dividing it by 512 gives the sector count back with remainder 0,
\* for counts up to 2^32 - 1; size_gb is that size over 2^30.
C8_SizeBytesExact ==
    /\ Parsed2 =>
          \A k \in 1..Len(script2.partitions) :
             LET q == script2.partitions[k]
             IN  /\ DivSmall(q.size_bytes, SECTOR_SIZE) = <<q.num_sectors, 0>>
                 /\ q.num_sectors = Value32(q.table_index, 12)
                 /\ q.size_gb = [num |-> q.size_bytes, exp |-> 30]
    /\ Parsed1 => SizesExact(script1.parts)
    /\ Parsed2Rebound => SizesExact(script2.partitions)

\* C8 witness: an entry with the greatest sector count, 2^32 - 1, whose size
\* is 0x1FFFFFFFE00 bytes, beyond 32 bits.
C8_Witness ==
    /\ Parsed2 /\ Parsed1
    /\ \E k \in 1..Len(script2.partitions) :
          /\ script2.partitions[k].num_sectors = <<65535, 65535>>
          /\ script2.partitions[k].size_bytes = <<65024, 65535, 511>>
    /\ \E k \in 1..Len(script1.parts) : script1.parts[k].size_gb.num = <<65024, 65535, 511>>

\* A call of a classifier is well-formed: it was made for a non-empty slot
\* with that slot's type code, which is not 0, and a code outside the lookup
\* table got the Unknown label that embeds its two hexadecimal digits.
CallOK(c, unknown) ==
    /\ c.arg /= 0
    /\ c.entry \in NonEmptySlots
    /\ c.arg = TableByte(c.entry, 4)
    /\ (c.arg \notin KnownTypes) => c.label = unknown \o TwoHex(c.arg) \o ")"
    /\ (c.arg \in KnownTypes) => c.label /= unknown \o TwoHex(c.arg) \o ")"

\* Equal codes get equal labels and different codes different labels.
LabelsInjective(calls) ==
    \A j, k \in 1..Len(calls) :
       (calls[j].arg = calls[k].arg) = (calls[j].label = calls[k].label)

\* C9: in every run each classifier is called only for non-empty entries,
\* never with type code 0; each code of the lookup table gets a label of its
\* own, and every other code the Unknown label with its two-digit hex value.
C9_ClassifierTotal ==
    /\ \A k \in 1..Len(script1.calls) : CallOK(script1.calls[k], "Unknown (0x")
    /\ \A k \in 1..Len(script2.calls) : CallOK(script2.calls[k], "Unknown / Other (0x")
    /\ LabelsInjective(script1.calls)
    /\ LabelsInjective(script2.calls)
    /\ script1.pc = "done" => Len(script1.calls) >= Cardinality(NonEmptySlots)
    /\ script2.pc = "done" => Len(script2.calls) >= Cardinality(NonEmptySlots)

\* C9 witness: both scripts have finished on a table with the unknown type
\* code 0x05 and a known one; the code got "Unknown (0x05)" from type_name
\* and "Unknown / Other (0x05)" from type_description, and the entry with a
\* type but no sectors was not classified.
C9_Witness ==
    /\ script1.pc = "done" /\ script2.pc = "done"
    /\ \E k \in 1..Len(script1.calls) :
          script1.calls[k].arg = 5 /\ script1.calls[k].label = "Unknown (0x05)"
    /\ \E k \in 1..Len(script2.calls) :
          script2.calls[k].arg = 5 /\ script2.calls[k].label = "Unknown / Other (0x05)"
    /\ \E k \in 1..Len(script2.calls) : script2.calls[k].label = "Linux (0x83)"
    /\ TableByte(2, 4) = 11 /\ \A k \in 1..Len(script1.calls) : script1.calls[k].entry /= 2

SameOption(a, b) == Len(a) = Len(b) /\ (a /= <<>> => SameEntry(a[1], b[1]))

\* C10: on a 512-byte buffer the list of the filtering parse_mbr equals,
\* entry by entry (table index, bootable, type, start LBA, sector count),
\* the real_parts analyze builds from the 4-entry parse_mbr; the table
\* indices increase strictly; both scripts report the same second real
\* partition and the same largest partition.
C10_DecodersAgree ==
    /\ (script1.pc = "done" /\ Parsed2) =>
          /\ Len(script2.partitions) = Len(script1.real_parts)
          /\ \A k \in 1..Len(script2.partitions) :
                SameEntry(script1.real_parts[k], script2.partitions[k])
          /\ \A k \in 1..(Len(script2.partitions) - 1) :
                script2.partitions[k].table_index < script2.partitions[k + 1].table_index
    /\ (script1.pc = "done" /\ script2.pc = "done") =>
          /\ SameOption(script1.second, script2.second)
          /\ SameOption(script1.biggest, script2.largest)

\* C10 witness: both scripts have finished on a table with an entry empty by
\* its type, an entry empty by its sector count and two real partitions.
C10_Witness ==
    /\ script1.pc = "done" /\ script2.pc = "done"
    /\ Len(script2.partitions) = 2 /\ Len(script1.real_parts) = 2
    /\ \E k \in 1..4 : script1.parts[k].ptype = 0 /\ script1.parts[k].sectors /= <<>>
    /\ \E k \in 1..4 : script1.parts[k].ptype /= 0 /\ script1.parts[k].sectors = <<>>
    /\ script2.partitions[1].table_index > 0
    /\ Len(script2.second) = 1 /\ Len(script2.largest) = 1

====
